---- MODULE Spec2Model ----
(***************************************************************************)
(* Merkle Mountain Range inclusion proofs: the accumulator that emits a    *)
(* proof, and Proof::verify_range_inclusion / peak_hash_from_range of      *)
(* storage/src/mmr/verification.rs, which recompute the root from a proof  *)
(* and a claimed range of elements.                                        *)
(*                                                                         *)
(* Digests are symbolic terms, so the hash functions are injective and     *)
(* domain separated: two digests are equal only when they were computed    *)
(* from the same inputs by the same function.                              *)
(***************************************************************************)
EXTENDS Integers, Sequences, FiniteSets, TLC

\* Largest number of elements added to the MMR.
MaxLeaves == 5

\* Largest number of digests spliced into a proof in one step.
MaxInsert == 2

\* Body applied to the value of v, with v evaluated once.
Bind(v, Body(_)) == CHOOSE y \in {Body(x) : x \in {v}} : TRUE

-----------------------------------------------------------------------------
(* Digests                                                                 *)

\* Digest::from(vec![0u8; Sha256::len()]), the digest the tests mangle with.
ZeroDigest == <<"digest", 0>>

\* The element values the tests add to the MMR.
TestElements == {<<"digest", 1>>, <<"digest", 2>>}

\* Hasher::leaf_hash: binds the element to its position.
leaf_hash(pos, element) == <<"leaf", pos, element>>

\* Hasher::node_hash: binds the node's position and both children, in order.
node_hash(pos, left_hash, right_hash) == <<"node", pos, left_hash, right_hash>>

\* Hasher::root_hash: bags the peak hashes with the size.
root_hash(size, peak_hashes) == <<"root", size, peak_hashes>>

-----------------------------------------------------------------------------
(* Peak enumeration                                                        *)

RECURSIVE PeaksFrom(_, _, _)
\* The peaks of the `remaining` nodes that start at position `offset`, trying
\* trees of height `height` and lower: a tree of height h has 2^(h+1)-1 nodes
\* and its peak is its last node.
PeaksFrom(offset, remaining, height) ==
    IF remaining = 0 \/ height < 0 THEN <<>>
    ELSE LET tree == 2^(height + 1) - 1
         IN  IF tree <= remaining
             THEN <<<<offset + tree - 1, height>>>>
                      \o PeaksFrom(offset + tree, remaining - tree, height - 1)
             ELSE PeaksFrom(offset, remaining, height - 1)

\* PeakIterator::new(size): the (peak_pos, height) pairs, left to right.
PeakIterator(size) == PeaksFrom(0, size, size)

\* The number of nodes of an MMR of n leaves: 2n - popcount(n).
RECURSIVE PopCount(_)
PopCount(n) == IF n = 0 THEN 0 ELSE (n % 2) + PopCount(n \div 2)

MmrSize(n) == 2 * n - PopCount(n)

-----------------------------------------------------------------------------
(* The accumulator (mem::Mmr)                                              *)

RECURSIVE MergePeaks(_)
\* While the two most recent peaks have the same height, merge them into a
\* new internal node at the next position.
MergePeaks(m) ==
    LET n == Len(m.peaks)
    IN  IF n >= 2 /\ m.peaks[n - 1][2] = m.peaks[n][2]
        THEN LET pos == Len(m.nodes)
                 h   == node_hash(pos, m.nodes[m.peaks[n - 1][1] + 1],
                                       m.nodes[m.peaks[n][1] + 1])
             IN  MergePeaks([nodes |-> Append(m.nodes, h),
                             peaks |-> Append(SubSeq(m.peaks, 1, n - 2),
                                              <<pos, m.peaks[n][2] + 1>>)])
        ELSE m

\* Mmr::add: the new leaf takes the next position.
MmrAdd(m, element) ==
    LET pos == Len(m.nodes)
    IN  MergePeaks([nodes |-> Append(m.nodes, leaf_hash(pos, element)),
                    peaks |-> Append(m.peaks, <<pos, 0>>)])

\* Mmr::root_hash
MmrRootHash(m) ==
    root_hash(Len(m.nodes),
              [i \in 1..Len(m.peaks) |-> m.nodes[m.peaks[i][1] + 1]])

Reverse(s) == [i \in 1..Len(s) |-> s[Len(s) + 1 - i]]

\* Whether the subtree of the node at `pos` of height `height`, which covers
\* the positions pos + 2 - 2^(height+1) .. pos, overlaps [start, end].
SubtreeOverlaps(pos, height, start, end) ==
    pos >= start /\ pos + 2 - 2^(height + 1) <= end

RECURSIVE SiblingPositions(_, _, _, _)
\* The positions of the children that do not overlap [start, end], below the
\* node at node_pos, in the order the verifier's reconstruction reads them.
SiblingPositions(node_pos, height, start, end) ==
    IF height = 0 THEN <<>>
    ELSE LET left_pos  == node_pos - 2^height
             right_pos == node_pos - 1
             left_in   == SubtreeOverlaps(left_pos, height - 1, start, end)
             right_in  == SubtreeOverlaps(right_pos, height - 1, start, end)
         IN  (IF left_in THEN SiblingPositions(left_pos, height - 1, start, end)
              ELSE <<>>)
             \o (IF right_in
                 THEN SiblingPositions(right_pos, height - 1, start, end)
                 ELSE <<>>)
             \o (IF left_in THEN <<>> ELSE <<left_pos>>)
             \o (IF right_in THEN <<>> ELSE <<right_pos>>)

RECURSIVE ProofPositions(_, _, _, _)
\* <<front, back>>: the peaks outside the range, in peak order, and the
\* siblings of the peaks inside it, in the order the verifier reads them.
ProofPositions(peaks, i, start, end) ==
    IF i > Len(peaks) THEN <<<<>>, <<>>>>
    ELSE LET rest == ProofPositions(peaks, i + 1, start, end)
             pos  == peaks[i][1]
             h    == peaks[i][2]
         IN  IF SubtreeOverlaps(pos, h, start, end)
             THEN <<rest[1], SiblingPositions(pos, h, start, end) \o rest[2]>>
             ELSE <<<<pos>> \o rest[1], rest[2]>>

\* Mmr::range_proof: the peak hashes outside the range, then the sibling
\* hashes in reverse of the order the verifier's backward cursor reads them.
MmrRangeProof(m, start, end) ==
    LET pp    == ProofPositions(m.peaks, 1, start, end)
        order == pp[1] \o Reverse(pp[2])
    IN  [size   |-> Len(m.nodes),
         hashes |-> [i \in 1..Len(order) |-> m.nodes[order[i] + 1]]]

-----------------------------------------------------------------------------
(* Verification                                                            *)

\* The cursors of one verification: elements consumed, sibling hashes taken
\* from the back, and the trace of what reconstruction consumed.
NewCursors == [ei |-> 0, sib |-> 0, log |-> <<>>]

\* siblings_iter.next(): the hashes read from the back, independently of the
\* forward cursor.
NextSibling(hashes, sib) ==
    [some |-> sib < Len(hashes),
     hash |-> IF sib < Len(hashes) THEN hashes[Len(hashes) - sib]
              ELSE ZeroDigest]

\* A missing child hash is filled from the backward cursor.
TakeSibling(have, hashes, cur, node_pos, two_h, side) ==
    IF have.status = "ok" THEN [status |-> "ok", hash |-> have.hash, cur |-> cur]
    ELSE LET n == NextSibling(hashes, cur.sib)
         IN  IF n.some
             THEN [status |-> "ok", hash |-> n.hash,
                   cur |-> [cur EXCEPT !.sib = @ + 1,
                                       !.log = Append(@, [node |-> node_pos,
                                                          two_h |-> two_h,
                                                          side |-> side])]]
             ELSE [status |-> "err", hash |-> ZeroDigest, cur |-> cur]

RECURSIVE peak_hash_from_range_LeftFirst(_, _, _, _, _, _, _)
\* peak_hash_from_range with a missing left hash filled before the right child
\* is descended into.
peak_hash_from_range_LeftFirst(node_pos, two_h, leftmost_pos, rightmost_pos, elements, hashes, cur) ==
    IF two_h = 0 THEN [status |-> "panic", hash |-> ZeroDigest, cur |-> cur]
    ELSE IF two_h = 1
    THEN IF cur.ei < Len(elements)
         THEN [status |-> "ok",
               hash |-> leaf_hash(node_pos, elements[cur.ei + 1]),
               cur |-> [cur EXCEPT !.ei = @ + 1,
                                   !.log = Append(@, [node |-> node_pos,
                                                      two_h |-> 1,
                                                      side |-> "leaf"])]]
         ELSE [status |-> "err", hash |-> ZeroDigest, cur |-> cur]
    ELSE IF node_pos < two_h
    THEN [status |-> "panic", hash |-> ZeroDigest, cur |-> cur]
    ELSE
    LET left_pos  == node_pos - two_h
        right_pos == left_pos + two_h - 1
        none(c)   == [status |-> "none", hash |-> ZeroDigest, cur |-> c]
    IN
    Bind(IF left_pos >= leftmost_pos
         THEN peak_hash_from_range_LeftFirst(left_pos, two_h \div 2,
                  leftmost_pos, rightmost_pos, elements, hashes, cur)
         ELSE TakeSibling(none(cur), hashes, cur, node_pos, two_h, "left"),
      LAMBDA lh :
        IF lh.status \in {"err", "panic"} THEN lh
        ELSE
    Bind(IF left_pos < rightmost_pos
         THEN peak_hash_from_range_LeftFirst(right_pos, two_h \div 2,
                  leftmost_pos, rightmost_pos, elements, hashes, lh.cur)
         ELSE TakeSibling(none(lh.cur), hashes, lh.cur, node_pos, two_h,
                          "right"),
      LAMBDA rh :
        IF rh.status \in {"err", "panic"} THEN rh
        ELSE [status |-> "ok",
              hash |-> node_hash(node_pos, lh.hash, rh.hash),
              cur |-> rh.cur]))

RECURSIVE peak_hash_from_range(_, _, _, _, _, _, _)
\* peak_hash_from_range, lines 91-158. Both descents come first (lines
\* 114-143); the hashes still missing are then read from the backward cursor,
\* left before right (lines 145-156).
peak_hash_from_range(node_pos, two_h, leftmost_pos, rightmost_pos, elements, hashes, cur) ==
    IF two_h = 0 THEN [status |-> "panic", hash |-> ZeroDigest, cur |-> cur]
    ELSE IF two_h = 1
    THEN IF cur.ei < Len(elements)
         THEN [status |-> "ok",
               hash |-> leaf_hash(node_pos, elements[cur.ei + 1]),
               cur |-> [cur EXCEPT !.ei = @ + 1,
                                   !.log = Append(@, [node |-> node_pos,
                                                      two_h |-> 1,
                                                      side |-> "leaf"])]]
         ELSE [status |-> "err", hash |-> ZeroDigest, cur |-> cur]
    ELSE IF node_pos < two_h
    THEN [status |-> "panic", hash |-> ZeroDigest, cur |-> cur]
    ELSE
    LET left_pos  == node_pos - two_h
        right_pos == left_pos + two_h - 1
        none(c)   == [status |-> "none", hash |-> ZeroDigest, cur |-> c]
    IN
    Bind(IF left_pos >= leftmost_pos
         THEN peak_hash_from_range(left_pos, two_h \div 2, leftmost_pos,
                                   rightmost_pos, elements, hashes, cur)
         ELSE none(cur),
      LAMBDA l :
        IF l.status \in {"err", "panic"} THEN l
        ELSE
    Bind(IF left_pos < rightmost_pos
         THEN peak_hash_from_range(right_pos, two_h \div 2, leftmost_pos,
                                   rightmost_pos, elements, hashes, l.cur)
         ELSE none(l.cur),
      LAMBDA r :
        IF r.status \in {"err", "panic"} THEN r
        ELSE
    Bind(TakeSibling(l, hashes, r.cur, node_pos, two_h, "left"),
      LAMBDA lh :
        IF lh.status = "err" THEN lh
        ELSE
    Bind(TakeSibling(r, hashes, lh.cur, node_pos, two_h, "right"),
      LAMBDA rh :
        IF rh.status = "err" THEN rh
        ELSE [status |-> "ok",
              hash |-> node_hash(node_pos, lh.hash, rh.hash),
              cur |-> rh.cur]))))

\* Line 54 with the first comparison strict.
PeakInRange_Strict(peak_pos, leftmost_pos, start_element_pos, end_element_pos) ==
    peak_pos > start_element_pos /\ leftmost_pos <= end_element_pos

\* Line 54: the peak's tree holds some element of the range.
PeakInRange(peak_pos, leftmost_pos, start_element_pos, end_element_pos) ==
    peak_pos >= start_element_pos /\ leftmost_pos <= end_element_pos

RECURSIVE VerifyPeaks(_, _, _, _, _, _, _)
\* The loop over the peaks (lines 52-73). st.status is "run" while the loop
\* goes on, "false" after a return false and "panic" after a panic.
VerifyPeaks(peaks, i, hashes, elements, start_element_pos, end_element_pos, st) ==
    IF i > Len(peaks) \/ st.status # "run" THEN st
    ELSE
    LET peak_pos == peaks[i][1]
        height   == peaks[i][2]
    IN  IF peak_pos + 2 < 2^(height + 1) THEN [st EXCEPT !.status = "panic"]
        ELSE
        LET leftmost_pos == peak_pos + 2 - 2^(height + 1)
        IN  IF PeakInRange(peak_pos, leftmost_pos, start_element_pos,
                           end_element_pos)
            THEN
              Bind(peak_hash_from_range(peak_pos, 2^height,
                       start_element_pos, end_element_pos, elements, hashes,
                       st.cur),
                LAMBDA r :
              Bind(IF r.status = "ok"
                   THEN [st EXCEPT !.peak_hashes = Append(@, r.hash),
                                   !.cur = r.cur]
                   ELSE [st EXCEPT !.status = IF r.status = "panic"
                                              THEN "panic" ELSE "false",
                                   !.cur = r.cur],
                LAMBDA next :
                  VerifyPeaks(peaks, i + 1, hashes, elements,
                      start_element_pos, end_element_pos, next)))
            ELSE IF st.used < Len(hashes)
            THEN
              Bind([st EXCEPT !.used = @ + 1,
                              !.peak_hashes = Append(@, hashes[st.used + 1])],
                LAMBDA next :
                  VerifyPeaks(peaks, i + 1, hashes, elements,
                      start_element_pos, end_element_pos, next))
            ELSE [st EXCEPT !.status = "false"]

\* Lines 78-86 with the second comparison evaluated whenever the backward
\* cursor has a hash left, whatever proof_hashes_used is.
UnusedProofData_NoShortCircuit(hashes, proof_hashes_used, sib) ==
    LET next_sibling == NextSibling(hashes, sib)
    IN  IF ~next_sibling.some THEN "pass"
        ELSE IF proof_hashes_used < 1 \/ proof_hashes_used > Len(hashes)
        THEN "panic"
        ELSE IF next_sibling.hash # hashes[proof_hashes_used] THEN "reject"
        ELSE "pass"

\* Lines 78-86: "reject" when some proof data was not used, "panic" when the
\* index proof_hashes_used - 1 is out of bounds, else "pass".
UnusedProofData(hashes, proof_hashes_used, sib) ==
    LET next_sibling == NextSibling(hashes, sib)
    IN  IF proof_hashes_used = 0 /\ next_sibling.some THEN "reject"
        ELSE IF ~next_sibling.some THEN "pass"
        ELSE IF proof_hashes_used < 1 \/ proof_hashes_used > Len(hashes)
        THEN "panic"
        ELSE IF next_sibling.hash # hashes[proof_hashes_used] THEN "reject"
        ELSE "pass"

\* Lines 75-77 left out: unconsumed elements go unnoticed.
ElementsLeft_Ignored(elements, ei) == FALSE

\* Line 75: elements_iter.next().is_some()
ElementsLeft(elements, ei) == ei < Len(elements)

\* Line 87 comparing the sizes only, not the bagged peak hashes.
RootMatches_SizeOnly(root, size, peak_hashes) ==
    root[1] = "root" /\ root[2] = size

\* Line 87
RootMatches(root, size, peak_hashes) == root = root_hash(size, peak_hashes)

\* Proof::verify_range_inclusion. status is "true", "false" or "panic".
verify_range_inclusion(proof, elements, start_element_pos, end_element_pos, root) ==
    Bind(VerifyPeaks(PeakIterator(proof.size), 1, proof.hashes, elements,
                     start_element_pos, end_element_pos,
                     [status |-> "run", used |-> 0, peak_hashes |-> <<>>,
                      cur |-> NewCursors]),
      LAMBDA st :
        LET out(s) == [status |-> s, used |-> st.used, sib |-> st.cur.sib,
                       ei |-> st.cur.ei, log |-> st.cur.log]
            unused == UnusedProofData(proof.hashes, st.used, st.cur.sib)
        IN  IF st.status # "run" THEN out(st.status)
            ELSE IF ElementsLeft(elements, st.cur.ei) THEN out("false")
            ELSE IF unused = "panic" THEN out("panic")
            ELSE IF unused = "reject" THEN out("false")
            ELSE IF RootMatches(root, proof.size, st.peak_hashes)
                 THEN out("true")
                 ELSE out("false"))

\* Proof::verify_element_inclusion
verify_element_inclusion(proof, element, element_pos, root) ==
    verify_range_inclusion(proof, <<element>>, element_pos, element_pos, root)

-----------------------------------------------------------------------------
(* The tests' harness: build an MMR, take a proof, verify it, then mangle   *)
(* the proof or the arguments and verify again.                            *)

VARIABLES
    mmr,                \* the accumulator: its node hashes and its peaks
    elements,           \* the elements added, in order
    element_positions,  \* the position Mmr::add returned for each
    start_index,        \* the proven range, as indices into elements
    end_index,
    range_proof,        \* the proof mmr.range_proof returned
    call,               \* the arguments of the latest verification
    result,             \* what the latest verification returned
    stage,              \* what the latest verification mangled
    prev                \* the verification before the latest one

vars == <<mmr, elements, element_positions, start_index, end_index,
          range_proof, call, result, stage, prev>>

NoProof == [size |-> 0, hashes |-> <<>>]

NoCall == [proof |-> NoProof, elements |-> <<>>, start |-> 0, end |-> 0,
           root |-> ZeroDigest]

NoResult == [status |-> "none", used |-> 0, sib |-> 0, ei |-> 0, log |-> <<>>]

Verify(c) ==
    verify_range_inclusion(c.proof, c.elements, c.start, c.end, c.root)

start_pos == element_positions[start_index]

end_pos == element_positions[end_index]

valid_elements == SubSeq(elements, start_index, end_index)

\* The digests a mangled proof is given: the zero digest, a copy of a hash of
\* the proof, or a peak hash of the MMR.
MangleDigests ==
    {ZeroDigest}
        \cup {call.proof.hashes[i] : i \in 1..Len(call.proof.hashes)}
        \cup {mmr.nodes[mmr.peaks[i][1] + 1] : i \in 1..Len(mmr.peaks)}

\* The non-empty sequences over S of at most n entries.
RECURSIVE SeqsUpTo(_, _)
SeqsUpTo(S, n) ==
    IF n = 0 THEN {}
    ELSE LET shorter == SeqsUpTo(S, n - 1)
         IN  {<<d>> : d \in S} \cup shorter
                 \cup {Append(s, d) : s \in shorter, d \in S}

InsertAt(s, at, ds) == SubSeq(s, 1, at) \o ds \o SubSeq(s, at + 1, Len(s))

RemoveAt(s, at) == SubSeq(s, 1, at - 1) \o SubSeq(s, at + 1, Len(s))

\* The sizes of the MMRs of up to MaxLeaves + 1 leaves.
ValidSizes == {MmrSize(n) : n \in 0..(MaxLeaves + 1)}

\* The positions a caller may name: every node, and two past the last.
Positions == 0..(Len(mmr.nodes) + 1)

Init ==
    /\ mmr = [nodes |-> <<>>, peaks |-> <<>>]
    /\ elements = <<>>
    /\ element_positions = <<>>
    /\ start_index = 0
    /\ end_index = 0
    /\ range_proof = NoProof
    /\ call = NoCall
    /\ result = NoResult
    /\ stage = "build"
    /\ prev = [call |-> NoCall, status |-> "none"]

\* mmr.add(element), lines 174-176 and 268-271.
Add ==
    /\ stage = "build"
    /\ Len(elements) < MaxLeaves
    /\ \E e \in TestElements :
           /\ mmr' = MmrAdd(mmr, e)
           /\ elements' = Append(elements, e)
    /\ element_positions' = Append(element_positions, Len(mmr.nodes))
    /\ UNCHANGED <<start_index, end_index, range_proof, call, result, stage,
                   prev>>

\* mmr.range_proof(start_pos, end_pos) (mmr.proof(pos) for one leaf) and the
\* verification of the valid proof, lines 183-187 and 279-287.
Prove ==
    /\ stage = "build"
    /\ \E i \in 1..Len(elements) : \E j \in i..Len(elements) :
           \E p \in {MmrRangeProof(mmr, element_positions[i],
                                   element_positions[j])} :
           \E c \in {[proof |-> p, elements |-> SubSeq(elements, i, j),
                      start |-> element_positions[i],
                      end |-> element_positions[j],
                      root |-> MmrRootHash(mmr)]} :
               /\ range_proof' = p
               /\ call' = c
               /\ result' = IF i = j
                            THEN verify_element_inclusion(p, elements[i],
                                     element_positions[i], c.root)
                            ELSE Verify(c)
               /\ start_index' = i
               /\ end_index' = j
    /\ stage' = "valid"
    /\ prev' = [call |-> call, status |-> result.status]
    /\ UNCHANGED <<mmr, elements, element_positions>>

\* The step every mangling action takes: verify the mangled call.
Mangled(c, what) ==
    /\ call' = c
    /\ result' = Verify(call')
    /\ stage' = what
    /\ prev' = [call |-> call, status |-> result.status]
    /\ UNCHANGED <<mmr, elements, element_positions, start_index, end_index,
                   range_proof>>

\* invalid_proof.hashes.insert(i, ...), lines 231-259 and 370-387.
InsertHashes ==
    /\ stage = "valid"
    /\ \E at \in 0..Len(call.proof.hashes) :
           \E ds \in SeqsUpTo(MangleDigests, MaxInsert) :
               Mangled([call EXCEPT !.proof.hashes = InsertAt(@, at, ds)],
                       "insert")

\* The proofs with entries removed: one entry, or a run from either end.
Shortened(hs) ==
    {RemoveAt(hs, at) : at \in 1..Len(hs)}
        \cup {SubSeq(hs, k + 1, Len(hs)) : k \in 1..Len(hs)}
        \cup {SubSeq(hs, 1, Len(hs) - k) : k \in 1..Len(hs)}

\* invalid_proof.hashes.remove(0) / pop() / one entry, lines 237-244, 388-402.
RemoveHashes ==
    /\ stage = "valid"
    /\ \E hs \in Shortened(call.proof.hashes) :
           Mangled([call EXCEPT !.proof.hashes = hs], "remove")

\* A position range other than the proof's, lines 197-204 and 403-424.
BadRange ==
    /\ stage = "valid"
    /\ \E s, e \in Positions :
           /\ <<s, e>> # <<call.start, call.end>>
           /\ Mangled([call EXCEPT !.start = s, !.end = e], "range")

\* The element sequences the tests try: any slice of the elements added,
\* none, one entry replaced, one entry more.
ElementChoices ==
    {SubSeq(elements, i, j) : i \in 1..Len(elements), j \in 0..Len(elements)}
        \cup {[valid_elements EXCEPT ![i] = d] :
                  i \in 1..Len(valid_elements),
                  d \in TestElements \cup {ZeroDigest}}
        \cup {Append(valid_elements, d) : d \in TestElements \cup {ZeroDigest}}

\* Elements other than the range's, lines 205-213 and 312-343.
BadElements ==
    /\ stage = "valid"
    /\ \E es \in ElementChoices :
           /\ es # call.elements
           /\ Mangled([call EXCEPT !.elements = es], "elements")

\* A verification that returned true, with the root changed, lines 214-218
\* and 344-356.
MangleRoot ==
    /\ result.status = "true"
    /\ stage \notin {"root", "hash", "size"}
    /\ \E r \in {ZeroDigest, root_hash(call.proof.size, <<>>)} :
           /\ r # call.root
           /\ Mangled([call EXCEPT !.root = r], "root")

\* A verification that returned true, with one proof hash changed,
\* lines 219-224 and 357-369.
MangleHash ==
    /\ result.status = "true"
    /\ stage \notin {"root", "hash", "size"}
    /\ \E at \in 1..Len(call.proof.hashes) : \E d \in MangleDigests :
           /\ d # call.proof.hashes[at]
           /\ Mangled([call EXCEPT !.proof.hashes[at] = d], "hash")

\* A verification that returned true, with the proof's size changed,
\* lines 225-230.
MangleSize ==
    /\ result.status = "true"
    /\ stage \notin {"root", "hash", "size"}
    /\ \E n \in ValidSizes :
           /\ n # call.proof.size
           /\ Mangled([call EXCEPT !.proof.size = n], "size")

Next ==
    \/ Add
    \/ Prove
    \/ InsertHashes
    \/ RemoveHashes
    \/ BadRange
    \/ BadElements
    \/ MangleRoot
    \/ MangleHash
    \/ MangleSize

Spec == Init /\ [][Next]_vars

-----------------------------------------------------------------------------
TypeOK ==
    /\ stage \in {"build", "valid", "insert", "remove", "range", "elements",
                  "root", "hash", "size"}
    /\ result.status \in {"none", "true", "false", "panic"}
    /\ PeakIterator(Len(mmr.nodes)) = mmr.peaks
    /\ Len(mmr.nodes) = MmrSize(Len(elements))

Called == result.status # "none"

\* The hashes of the latest call that neither cursor read.
Unread == Len(call.proof.hashes) - (result.used + result.sib)

-----------------------------------------------------------------------------
\* C1. Completeness: the proof range_proof(start, end) returns (proof(pos)
\* for one leaf) verifies with the elements stored at the leaves of
\* [start, end], the same positions and the accumulator's root.
C1_Completeness == stage = "valid" => result.status = "true"

\* A range of several leaves was verified, with a peak hash read by the
\* forward cursor and a sibling hash read by the backward cursor.
C1_Witness ==
    /\ stage = "valid"
    /\ result.status = "true"
    /\ start_index < end_index
    /\ result.used > 0
    /\ result.sib > 0

\* C2. Anti-malleability: verification returns true only if every proof hash
\* was read exactly once by one of the two cursors, and a valid proof with one
\* extra digest inserted anywhere is rejected.
C2_NoUnusedHash ==
    /\ result.status = "true" => Unread = 0
    /\ (stage = "insert"
            /\ Len(call.proof.hashes) = Len(range_proof.hashes) + 1)
           => result.status # "true"

\* C3. Position binding: a valid proof with the correct elements and root is
\* rejected for every position pair other than the one it was built for.
C3_PositionBinding == stage = "range" => result.status # "true"

\* C4. Element binding: a valid proof with the correct positions and root is
\* rejected for every element sequence other than the range's elements.
C4_ElementBinding == stage = "elements" => result.status # "true"

\* The range's elements followed by one more were claimed: the peaks were
\* rebuilt from the right elements and the extra one was left over.
C4_Witness ==
    /\ stage = "elements"
    /\ Len(call.elements) = Len(valid_elements) + 1
    /\ SubSeq(call.elements, 1, Len(valid_elements)) = valid_elements
    /\ result.ei = Len(valid_elements)
    /\ result.status = "false"

\* C5. Tamper rejection: after a verification that returned true, changing
\* only the root, only one proof hash or only the size makes it return false.
C5_TamperRejection ==
    (stage \in {"root", "hash", "size"} /\ prev.status = "true")
        => result.status # "true"

\* C6. Insufficiency rejection: a valid proof with one or more hashes removed
\* is rejected for the same elements, positions and root.
C6_InsufficiencyRejection == stage = "remove" => result.status # "true"

\* Hashes were removed and the two cursors read the same entry.
C6_Witness ==
    /\ stage = "remove"
    /\ result.used > 0
    /\ result.sib > 0
    /\ result.used + result.sib > Len(call.proof.hashes)
    /\ result.status = "false"

\* C7. Verification never panics: no index out of bounds at
\* hashes[proof_hashes_used - 1], no assert_ne!(two_h, 0) failure and no
\* underflow of node_pos - two_h; the result is a boolean.
C7_NeverPanics == Called => result.status \in {"true", "false"}

\* The backward cursor had a hash left while the forward cursor had read
\* none: the case where hashes[proof_hashes_used - 1] must not be evaluated.
C7_Witness ==
    /\ Called
    /\ result.used = 0
    /\ result.sib < Len(call.proof.hashes)
    /\ result.ei = Len(call.elements)
    /\ result.status = "false"

\* C8. Fails closed: a claimed range that ends at or beyond the proof's size
\* is rejected.
C8_FailsClosed ==
    (Called /\ call.end >= call.proof.size) => result.status # "true"

\* The event at log[j] happened inside the right child of the node of log[i].
InRightChild(log, i, j) ==
    /\ log[j].node > log[i].node - log[i].two_h
    /\ log[j].node < log[i].node

\* C9 as stated: at a node whose left child does not overlap the range, the
\* left sibling hash is read before anything is consumed in the right child.
C9_LeftSiblingFirst ==
    \A i, j \in 1..Len(result.log) :
        (result.log[i].side = "left" /\ InRightChild(result.log, i, j))
            => i < j

\* C9, amended: at a node whose left child does not overlap the range, the
\* left sibling hash is read after the right child is reconstructed, so after
\* every element and sibling hash consumed inside the right child.
C9_LeftSiblingLast ==
    \A i, j \in 1..Len(result.log) :
        (result.log[i].side = "left" /\ InRightChild(result.log, i, j))
            => j < i

\* A left sibling was read at a node whose right child read a sibling too.
C9_Witness ==
    /\ result.status = "true"
    /\ \E i, j \in 1..Len(result.log) :
           /\ result.log[i].side = "left"
           /\ InRightChild(result.log, i, j)
           /\ result.log[j].side \in {"left", "right"}

\* C10. No vacuous acceptance: with no elements claimed, verification returns
\* false for every proof, position pair and root.
C10_NoVacuousAcceptance ==
    Called =>
        \A s, e \in Positions :
            verify_range_inclusion(call.proof, <<>>, s, e,
                                   call.root).status # "true"

====
